---- MODULE Spec2Model ----
(***************************************************************************)
(* Model of scripts/update_registry.py: the registry updater that scans    *)
(* magic/upload/*.magic, reads each archive's metadata.json and upserts    *)
(* one entry per artifact into magic/manifest.json.                        *)
(*                                                                         *)
(* Python strings are sequences of one-character strings (download URLs    *)
(* and digests also use longer literal chunks).  JSON / Python values are  *)
(* tagged records: null, int, str, list, dict.  A call that may raise      *)
(* returns [raised |-> TRUE, exc |-> ...] or [raised |-> FALSE, val |-> v].*)
(*                                                                         *)
(* The values are those of RFC 8259 JSON without fractions and booleans.   *)
(* Python's json.loads also accepts the literal NaN, which is not equal to *)
(* itself; a name or version of NaN is outside this model.                 *)
(***************************************************************************)
EXTENDS Integers, Sequences, FiniteSets, TLC

\* ---------------------------------------------------------------- bounds
\* largest number of directory entries in magic/upload/
MaxFiles == 2

\* number of consecutive invocations of main in the re-run specification
MaxRuns == 2

\* ------------------------------------------------------- Python strings
\* characters in increasing code-point order
Ascii ==
  << " ", "-", ".", "/",
     "0", "1", "2", "3", "4", "5", "6", "7", "8", "9", ":",
     "A", "B", "C", "D", "E", "F", "G", "H", "I", "J", "K", "L", "M",
     "N", "O", "P", "Q", "R", "S", "T", "U", "V", "W", "X", "Y", "Z",
     "_",
     "a", "b", "c", "d", "e", "f", "g", "h", "i", "j", "k", "l", "m",
     "n", "o", "p", "q", "r", "s", "t", "u", "v", "w", "x", "y", "z" >>

UpperLetters ==
  << "A", "B", "C", "D", "E", "F", "G", "H", "I", "J", "K", "L", "M",
     "N", "O", "P", "Q", "R", "S", "T", "U", "V", "W", "X", "Y", "Z" >>

LowerLetters ==
  << "a", "b", "c", "d", "e", "f", "g", "h", "i", "j", "k", "l", "m",
     "n", "o", "p", "q", "r", "s", "t", "u", "v", "w", "x", "y", "z" >>

Digits == {"0", "1", "2", "3", "4", "5", "6", "7", "8", "9"}

Range(s) == {s[k] : k \in DOMAIN s}

\* ord(c), up to an order-preserving renumbering
Ord(c) == CHOOSE k \in DOMAIN Ascii : Ascii[k] = c

\* str.upper() / str.lower() on one character
upper(c) ==
  IF c \in Range(LowerLetters)
  THEN UpperLetters[CHOOSE k \in DOMAIN LowerLetters : LowerLetters[k] = c]
  ELSE c

lower(c) ==
  IF c \in Range(UpperLetters)
  THEN LowerLetters[CHOOSE k \in DOMAIN UpperLetters : UpperLetters[k] = c]
  ELSE c

StrLower(s) == [k \in DOMAIN s |-> lower(s[k])]

\* str.endswith
endswith(s, suffix) ==
  /\ Len(s) >= Len(suffix)
  /\ SubSeq(s, Len(s) - Len(suffix) + 1, Len(s)) = suffix

\* s < t on Python strings: lexicographic by code point
RECURSIVE StrLess(_, _)
StrLess(s, t) ==
  IF t = <<>> THEN FALSE
  ELSE IF s = <<>> THEN TRUE
  ELSE IF Head(s) = Head(t) THEN StrLess(Tail(s), Tail(t))
  ELSE Ord(Head(s)) < Ord(Head(t))

\* ------------------------------------------------------- Python values
PyNone == [t |-> "null"]
PyStr(s) == [t |-> "str", s |-> s]
PyInt(n) == [t |-> "int", n |-> n]
PyList(l) == [t |-> "list", l |-> l]
PyDict(d) == [t |-> "dict", d |-> d]

EmptyDict == PyDict([k \in {} |-> PyNone])

IsDict(v) == v.t = "dict"
IsList(v) == v.t = "list"
IsStr(v) == v.t = "str"

\* bool(v)
Truthy(v) ==
  CASE v.t = "null" -> FALSE
    [] v.t = "str"  -> v.s # <<>>
    [] v.t = "int"  -> v.n # 0
    [] v.t = "list" -> v.l # <<>>
    [] v.t = "dict" -> DOMAIN v.d # {}

\* dict.get(key, default) on a value known to be a dict
get(m, key, default) == IF key \in DOMAIN m.d THEN m.d[key] ELSE default

Ok(v) == [raised |-> FALSE, val |-> v]
Raise(e) == [raised |-> TRUE, exc |-> e]

\* a < b on Python values: defined inside str and inside int, TypeError
\* for every other pair of JSON types
PyLess(a, b) ==
  IF a.t = "str" /\ b.t = "str" THEN Ok(StrLess(a.s, b.s))
  ELSE IF a.t = "int" /\ b.t = "int" THEN Ok(a.n < b.n)
  ELSE Raise("TypeError")

\* (a1, a2) < (b1, b2) on tuples: the first position where the elements
\* differ (by ==) decides, with <
TupleLess(a, b) ==
  IF a[1] # b[1] THEN PyLess(a[1], b[1])
  ELSE IF a[2] # b[2] THEN PyLess(a[2], b[2])
  ELSE Ok(FALSE)

\* ------------------------------------------------------ string literals
s_unknown == <<"u", "n", "k", "n", "o", "w", "n">>
s_ext == <<".", "m", "a", "g", "i", "c">>
s_metadata_json ==
  <<"m", "e", "t", "a", "d", "a", "t", "a", ".", "j", "s", "o", "n">>

\* --------------------------------------------------------- BUILD_MAP
BUILD_MAP ==
  [ A |-> <<"s", "t", "a", "b", "l", "e">>,
    B |-> <<"r", "c">>,
    C |-> <<"b", "e", "t", "a">>,
    D |-> <<"a", "l", "p", "h", "a">>,
    F |-> <<"d", "e", "b", "u", "g">> ]

\* variant: the letter is looked up without .upper()
parse_build_type_case_sensitive(build_id) ==
  IF build_id # <<>>
  THEN LET letter == build_id[Len(build_id)]
       IN  IF letter \in DOMAIN BUILD_MAP THEN BUILD_MAP[letter] ELSE s_unknown
  ELSE s_unknown

parse_build_type(build_id) ==
  IF build_id # <<>>
  THEN LET letter == upper(build_id[Len(build_id)])
       IN  IF letter \in DOMAIN BUILD_MAP THEN BUILD_MAP[letter] ELSE s_unknown
  ELSE s_unknown

\* ------------------------------------------------------- FILENAME_RE
\* ^(?P<name>[^_]+)_(?P<buildid>[A-Za-z0-9]+)\.magic$
\* name stops at the first underscore; the rest must be a non-empty
\* alphanumeric build id followed by ".magic"
Alnum == Range(UpperLetters) \cup Range(LowerLetters) \cup Digits

NoMatch == [matched |-> FALSE]

\* variant: ^(?P<name>.+)_(?P<buildid>[A-Za-z0-9]+)\.magic$, the name runs
\* to the last underscore
FILENAME_RE_greedy_name(fname) ==
  IF "_" \notin Range(fname) THEN NoMatch
  ELSE
    LET p    == CHOOSE k \in DOMAIN fname :
                  fname[k] = "_" /\ \A j \in (k + 1)..Len(fname) : fname[j] # "_"
        rest == SubSeq(fname, p + 1, Len(fname))
        bid  == SubSeq(rest, 1, Len(rest) - Len(s_ext))
    IN  IF /\ p > 1
           /\ endswith(rest, s_ext)
           /\ bid # <<>>
           /\ Range(bid) \subseteq Alnum
        THEN [matched |-> TRUE, name |-> SubSeq(fname, 1, p - 1), buildid |-> bid]
        ELSE NoMatch

FILENAME_RE(fname) ==
  IF "_" \notin Range(fname) THEN NoMatch
  ELSE
    LET p    == CHOOSE k \in DOMAIN fname :
                  fname[k] = "_" /\ \A j \in 1..(k - 1) : fname[j] # "_"
        rest == SubSeq(fname, p + 1, Len(fname))
        bid  == SubSeq(rest, 1, Len(rest) - Len(s_ext))
    IN  IF /\ p > 1
           /\ endswith(rest, s_ext)
           /\ bid # <<>>
           /\ Range(bid) \subseteq Alnum
        THEN [matched |-> TRUE, name |-> SubSeq(fname, 1, p - 1), buildid |-> bid]
        ELSE NoMatch

\* ----------------------------------------------------------- JSON text
\* The text of a file is a sequence of tokens: white space, one complete
\* JSON document, or text that is not JSON.
WS == [tok |-> "ws"]
Garbage == [tok |-> "garbage"]
Doc(v) == [tok |-> "doc", v |-> v]

RECURSIVE lstrip(_)
lstrip(text) ==
  IF text # <<>> /\ Head(text) = WS THEN lstrip(Tail(text)) ELSE text

RECURSIVE rstrip(_)
rstrip(text) ==
  IF text # <<>> /\ text[Len(text)] = WS
  THEN rstrip(SubSeq(text, 1, Len(text) - 1))
  ELSE text

\* str.strip()
strip(text) == rstrip(lstrip(text))

\* json.loads: exactly one document, white space allowed around it
json_loads(text) ==
  LET body == strip(text)
  IN  IF Len(body) = 1 /\ body[1].tok = "doc"
      THEN Ok(body[1].v)
      ELSE Raise("JSONDecodeError")

\* json.dump(obj, f, indent=2, ensure_ascii=False): one document.  dicts
\* keep their insertion order in Python; the model's dicts are unordered.
json_dump(obj) == <<Doc(obj)>>

\* ---------------------------------------------------------- sha256_file
\* the digest is a function of the file's bytes only
sha256_file(path) == <<"sha256(", path.bytes, ")">>

\* ------------------------------------------ read_model_infos_from_magic
\* the first member whose lower-cased name ends with "metadata.json"
IsMetadataName(name) == endswith(StrLower(name), s_metadata_json)

read_model_infos_from_magic(magic_path) ==
  IF ~magic_path.zip.valid THEN Raise("BadZipFile")
  ELSE
    LET members == magic_path.zip.members
        hits    == {k \in DOMAIN members : IsMetadataName(members[k].name)}
    IN  IF hits = {} THEN Raise("FileNotFoundError")
        ELSE LET candidate == CHOOSE k \in hits : \A j \in hits : k <= j
             IN  json_loads(members[candidate].data)

\* -------------------------------------------------------- load_registry
EmptyRegistry == PyDict([models |-> PyList(<<>>)])

\* variant: the JSONDecodeError handler returns nothing
load_registry_no_return(disk) ==
  IF disk.exists
  THEN IF ~disk.readable THEN EmptyRegistry
       ELSE LET content == strip(disk.text)
            IN  IF content = <<>> THEN EmptyRegistry
                ELSE LET r == json_loads(content)
                     IN  IF r.raised THEN PyNone ELSE r.val
  ELSE EmptyRegistry

load_registry(disk) ==
  IF disk.exists
  THEN IF ~disk.readable THEN EmptyRegistry          \* except Exception
       ELSE LET content == strip(disk.text)
            IN  IF content = <<>> THEN EmptyRegistry
                ELSE LET r == json_loads(content)
                     IN  IF r.raised THEN EmptyRegistry  \* JSONDecodeError
                         ELSE r.val
  ELSE EmptyRegistry

\* --------------------------------------------------------- upsert_model
\* variant: entries are matched on the whole dict
SameKey_whole_entry(m, model_entry) == m = model_entry

\* variant: entries are matched on the version alone
SameKey_version_only(m, model_entry) ==
  get(m, "version", PyNone) = get(model_entry, "version", PyNone)

SameKey(m, model_entry) ==
  /\ get(m, "name", PyNone) = get(model_entry, "name", PyNone)
  /\ get(m, "version", PyNone) = get(model_entry, "version", PyNone)

\* variant: a matching entry is updated field by field
RECURSIVE upsert_loop_merge(_, _, _)
upsert_loop_merge(models, model_entry, i) ==
  IF i > Len(models) THEN Ok(Append(models, model_entry))
  ELSE IF ~IsDict(models[i]) THEN Raise("AttributeError")
  ELSE IF get(models[i], "name", PyNone) = get(model_entry, "name", PyNone)
          /\ get(models[i], "version", PyNone) = get(model_entry, "version", PyNone)
       THEN Ok([models EXCEPT ![i] =
                  PyDict([k \in DOMAIN models[i].d \cup DOMAIN model_entry.d |->
                            IF k \in DOMAIN model_entry.d
                            THEN model_entry.d[k] ELSE models[i].d[k]])])
       ELSE upsert_loop_merge(models, model_entry, i + 1)

\* the for loop over enumerate(registry["models"]), from index i on
RECURSIVE upsert_loop(_, _, _)
upsert_loop(models, model_entry, i) ==
  IF i > Len(models) THEN Ok(Append(models, model_entry))
  ELSE IF ~IsDict(models[i]) THEN Raise("AttributeError")
  ELSE IF SameKey(models[i], model_entry)
       THEN Ok([models EXCEPT ![i] = model_entry])
       ELSE upsert_loop(models, model_entry, i + 1)

\* registry["models"] of a value that may not be a dict with that key
Subscript_models(registry) ==
  IF ~IsDict(registry) THEN Raise("TypeError")
  ELSE IF "models" \notin DOMAIN registry.d THEN Raise("KeyError")
  ELSE Ok(registry.d.models)

upsert_model(registry, model_entry) ==
  LET sub == Subscript_models(registry)
  IN  IF sub.raised THEN sub
      ELSE IF ~IsList(sub.val) THEN Raise("TypeError")
      ELSE LET r == upsert_loop(sub.val.l, model_entry, 1)
           IN  IF r.raised THEN r
               ELSE Ok(PyDict([registry.d EXCEPT !.models = PyList(r.val)]))

\* -------------------------------------------------------- save_registry
\* key=lambda m: (m.get("name",""), m.get("version",""))
SortKey(m) == <<get(m, "name", PyStr(<<>>)), get(m, "version", PyStr(<<>>))>>

\* variant: reverse=True
RECURSIVE SortInsert_descending(_, _)
SortInsert_descending(s, x) ==
  IF s = <<>> THEN Ok(<<x>>)
  ELSE LET last == s[Len(s)]
           c    == TupleLess(SortKey(last), SortKey(x))
       IN  IF c.raised THEN c
           ELSE IF c.val
                THEN LET r == SortInsert_descending(SubSeq(s, 1, Len(s) - 1), x)
                     IN  IF r.raised THEN r ELSE Ok(Append(r.val, last))
                ELSE Ok(Append(s, x))

\* insert x into the sorted sequence s behind every element that is not
\* greater than it (list.sort is stable)
RECURSIVE SortInsert(_, _)
SortInsert(s, x) ==
  IF s = <<>> THEN Ok(<<x>>)
  ELSE LET last == s[Len(s)]
           c    == TupleLess(SortKey(x), SortKey(last))
       IN  IF c.raised THEN c
           ELSE IF c.val
                THEN LET r == SortInsert(SubSeq(s, 1, Len(s) - 1), x)
                     IN  IF r.raised THEN r ELSE Ok(Append(r.val, last))
                ELSE Ok(Append(s, x))

RECURSIVE SortFrom(_, _)
SortFrom(done, todo) ==
  IF todo = <<>> THEN Ok(done)
  ELSE LET r == SortInsert(done, Head(todo))
       IN  IF r.raised THEN r ELSE SortFrom(r.val, Tail(todo))

\* variant: the list is left in the order it has
list_sort_skipped(l) ==
  IF \E k \in DOMAIN l : ~IsDict(l[k]) THEN Raise("AttributeError")
  ELSE Ok(l)

\* list.sort(key=...): the keys of all elements are computed first
list_sort(l) ==
  IF \E k \in DOMAIN l : ~IsDict(l[k]) THEN Raise("AttributeError")
  ELSE SortFrom(<<>>, l)

\* variant: the file is opened with mode "a"
Written_append(disk, registry) ==
  [ exists   |-> TRUE,
    readable |-> IF disk.exists THEN disk.readable ELSE TRUE,
    writable |-> TRUE,
    text     |-> disk.text \o json_dump(registry) ]

\* the disk after open(REGISTRY_PATH, "w") and json.dump
Written(disk, registry) ==
  [ exists   |-> TRUE,
    readable |-> IF disk.exists THEN disk.readable ELSE TRUE,
    writable |-> TRUE,
    text     |-> json_dump(registry) ]

\* returns the sorted registry and the new disk, or raises
save_registry(registry, disk) ==
  LET sub == Subscript_models(registry)
  IN  IF sub.raised THEN sub
      ELSE IF ~IsList(sub.val) THEN Raise("AttributeError")
      ELSE LET r == list_sort(sub.val.l)
           IN  IF r.raised THEN r
               ELSE IF ~disk.writable THEN Raise("OSError")
               ELSE LET sorted == PyDict([registry.d EXCEPT !.models = PyList(r.val)])
                    IN  Ok([registry |-> sorted, disk |-> Written(disk, sorted)])

\* ---------------------------------------------------------- environment
\* os.environ.get(key, default); an unset variable is PyNone
environ_get(env, key, default) == IF env[key] = PyNone THEN default ELSE env[key]

\* str.split(sep) for a one-character separator
RECURSIVE split(_, _)
split(s, sep) ==
  IF sep \notin Range(s) THEN <<s>>
  ELSE LET p == CHOOSE k \in DOMAIN s :
                  s[k] = sep /\ \A j \in 1..(k - 1) : s[j] # sep
       IN  <<SubSeq(s, 1, p - 1)>> \o split(SubSeq(s, p + 1, Len(s)), sep)

s_owner_repo == <<"o", "w", "n", "e", "r", "/", "r", "e", "p", "o">>
s_main == <<"m", "a", "i", "n">>
s_8000 == <<"8", "0", "0", "0">>

GITHUB_REPOSITORY(env) == environ_get(env, "GITHUB_REPOSITORY", PyStr(s_owner_repo)).s
REPO_OWNER(env) == split(GITHUB_REPOSITORY(env), "/")[1]
REPO_NAME(env) == split(GITHUB_REPOSITORY(env), "/")[2]
DEFAULT_BRANCH(env) == environ_get(env, "DEFAULT_BRANCH", PyStr(s_main)).s

\* variant: without the is_file() filter
glob_magic_unfiltered(listing) ==
  SelectSeq(listing, LAMBDA p : endswith(p.fname, s_ext))

\* DIST_DIR.glob("*.magic") filtered by is_file(), in directory order
glob_magic(listing) ==
  SelectSeq(listing, LAMBDA p : endswith(p.fname, s_ext) /\ p.is_file)

\* ------------------------------------------- main: body of the for loop
\* variant: the development host is tested with "is not None"
download_url_host_set(env, fname) ==
  IF environ_get(env, "DEV_SERVER_IP", PyNone) # PyNone
  THEN LET dev_ip   == environ_get(env, "DEV_SERVER_IP", PyNone).s
           dev_port == environ_get(env, "DEV_SERVER_PORT", PyStr(s_8000)).s
       IN  <<"http://">> \o dev_ip \o <<":">> \o dev_port
             \o <<"/magic/upload/">> \o fname
  ELSE <<"https://raw.githubusercontent.com/">> \o REPO_OWNER(env) \o <<"/">>
         \o REPO_NAME(env) \o <<"/">> \o DEFAULT_BRANCH(env)
         \o <<"/magic/upload/">> \o fname

download_url(env, fname) ==
  IF Truthy(environ_get(env, "DEV_SERVER_IP", PyNone))
  THEN LET dev_ip   == environ_get(env, "DEV_SERVER_IP", PyNone).s
           dev_port == environ_get(env, "DEV_SERVER_PORT", PyStr(s_8000)).s
       IN  <<"http://">> \o dev_ip \o <<":">> \o dev_port
             \o <<"/magic/upload/">> \o fname
  ELSE <<"https://raw.githubusercontent.com/">> \o REPO_OWNER(env) \o <<"/">>
         \o REPO_NAME(env) \o <<"/">> \o DEFAULT_BRANCH(env)
         \o <<"/magic/upload/">> \o fname

\* variant: version is still the default when it is compared
version_mismatch_default(infos) ==
  /\ Truthy(get(infos, "version", PyNone))
  /\ infos.d.version # PyStr(s_unknown)

\* the condition of the "version mismatch" warning:
\* version = infos.get("version", "unknown")
\* if infos.get("version") and infos["version"] != version
version_mismatch(infos) ==
  LET version == get(infos, "version", PyStr(s_unknown))
  IN  /\ Truthy(get(infos, "version", PyNone))
      /\ infos.d.version # version

\* compat = infos.get("compatible_versions") or infos.get("compat") or []
\* if isinstance(compat, str): compat = [compat]
compatible_versions(infos) ==
  LET c1 == get(infos, "compatible_versions", PyNone)
      c2 == get(infos, "compat", PyNone)
      compat == IF Truthy(c1) THEN c1
                ELSE IF Truthy(c2) THEN c2
                ELSE PyList(<<>>)
  IN  IF IsStr(compat) THEN PyList(<<compat>>) ELSE compat

\* infos.get("date_created") or datetime.utcnow().strftime("%Y-%m-%d")
date_created(infos, env) ==
  LET d == get(infos, "date_created", PyNone)
  IN  IF Truthy(d) THEN d ELSE PyStr(env.today)

\* variant: name and version default with "or", as date_created does
make_entry_or_defaults(magic_path, m, infos, env) ==
  PyDict(
    [ name                |-> IF Truthy(get(infos, "name", PyNone))
                              THEN get(infos, "name", PyNone) ELSE PyStr(m.name),
      version             |-> IF Truthy(get(infos, "version", PyNone))
                              THEN get(infos, "version", PyNone) ELSE PyStr(s_unknown),
      author              |-> get(infos, "author", PyStr(s_unknown)),
      date_created        |-> date_created(infos, env),
      parameters          |-> get(infos, "parameters", EmptyDict),
      compatible_versions |-> compatible_versions(infos),
      size_bytes          |-> PyInt(magic_path.size),
      sha256              |-> PyStr(sha256_file(magic_path)),
      download_url        |-> PyStr(download_url(env, magic_path.fname)),
      build_id            |-> PyStr(m.buildid),
      build_type          |-> PyStr(parse_build_type(m.buildid)) ])

\* the dict literal assigned to entry; m is the match of FILENAME_RE
make_entry(magic_path, m, infos, env) ==
  PyDict(
    [ name                |-> get(infos, "name", PyStr(m.name)),
      version             |-> get(infos, "version", PyStr(s_unknown)),
      author              |-> get(infos, "author", PyStr(s_unknown)),
      date_created        |-> date_created(infos, env),
      parameters          |-> get(infos, "parameters", EmptyDict),
      compatible_versions |-> compatible_versions(infos),
      size_bytes          |-> PyInt(magic_path.size),
      sha256              |-> PyStr(sha256_file(magic_path)),
      download_url        |-> PyStr(download_url(env, magic_path.fname)),
      build_id            |-> PyStr(m.buildid),
      build_type          |-> PyStr(parse_build_type(m.buildid)) ])

\* one iteration of "for magic_path in magic_files": the registry after
\* it, or the exception that leaves main
loop_body(registry, magic_path, env) ==
  LET m == FILENAME_RE(magic_path.fname)
  IN  IF ~m.matched THEN Ok(registry)                       \* continue
      ELSE LET r == read_model_infos_from_magic(magic_path)
           IN  IF r.raised THEN Ok(registry)                \* continue
               ELSE IF ~IsDict(r.val) THEN Raise("AttributeError")
               ELSE upsert_model(registry, make_entry(magic_path, m, r.val, env))

RECURSIVE loop_from(_, _, _)
loop_from(registry, magic_files, env) ==
  IF magic_files = <<>> THEN Ok(registry)
  ELSE LET r == loop_body(registry, Head(magic_files), env)
       IN  IF r.raised THEN r ELSE loop_from(r.val, Tail(magic_files), env)

\* main as a function of its inputs: the exit status and the disk it leaves
main(disk, dir_exists, listing, env) ==
  IF ~dir_exists THEN [exit_code |-> 0, disk |-> disk]
  ELSE LET registry    == load_registry(disk)
           magic_files == glob_magic(listing)
       IN  IF magic_files = <<>> THEN [exit_code |-> 0, disk |-> disk]
           ELSE LET r == loop_from(registry, magic_files, env)
                IN  IF r.raised THEN [exit_code |-> 1, disk |-> disk]
                    ELSE LET s == save_registry(r.val, disk)
                         IN  IF s.raised THEN [exit_code |-> 1, disk |-> disk]
                             ELSE [exit_code |-> 0, disk |-> s.val.disk]

\* ------------------------------------------------------------- inputs
\* archives and other directory entries that may lie in magic/upload/
Member(name, data) == [name |-> name, data |-> data]
Zip(members) == [valid |-> TRUE, members |-> members]
NotZip == [valid |-> FALSE, members |-> <<>>]
DirEntry(fname, bytes, size, zip) ==
  [fname |-> fname, is_file |-> TRUE, bytes |-> bytes, size |-> size, zip |-> zip]

MetaDoc(d) == Zip(<<Member(s_metadata_json, <<Doc(PyDict(d))>>)>>)

s_a == <<"a">>
s_b == <<"b">>
s_1 == <<"1">>
s_2 == <<"2">>

\* a_1A.magic and a_1B.magic: two builds of the same (name, version)
f_a_1A ==
  DirEntry(<<"a", "_", "1", "A">> \o s_ext, "bytes1", 11,
    MetaDoc([name |-> PyStr(s_a), version |-> PyStr(s_1),
             compatible_versions |-> PyStr(s_1)]))

f_a_1B ==
  DirEntry(<<"a", "_", "1", "B">> \o s_ext, "bytes2", 12,
    Zip(<< Member(<<"r", "e", "a", "d", "m", "e">>, <<Garbage>>),
           Member(<<"x", "/", "M", "E", "T", "A", "D", "A", "T", "A", ".",
                    "J", "S", "O", "N">>,
                  <<Doc(PyDict([name |-> PyStr(s_a), version |-> PyStr(s_1),
                                author |-> PyStr(<<"x">>)])), WS>>) >>))

\* metadata without a name: the name comes from the file name
f_b_2C ==
  DirEntry(<<"b", "_", "2", "c">> \o s_ext, "bytes3", 13,
    MetaDoc([version |-> PyStr(s_2), date_created |-> PyStr(<<>>),
             compat |-> PyList(<<PyStr(s_1), PyStr(s_2)>>)]))

\* empty metadata: every field is defaulted
f_c_x7 ==
  DirEntry(<<"c", "_", "x", "7">> \o s_ext, "bytes4", 14, MetaDoc(EmptyDict.d))

\* names FILENAME_RE rejects
f_weird ==
  DirEntry(<<"w", ".", "n">> \o s_ext, "bytes5", 15,
    MetaDoc([name |-> PyStr(<<"w">>), version |-> PyStr(s_1)]))

f_two_underscores ==
  DirEntry(<<"a", "_", "b", "_", "A">> \o s_ext, "bytes6", 16,
    MetaDoc([name |-> PyStr(<<"t">>), version |-> PyStr(s_1)]))

\* archives read_model_infos_from_magic fails on
f_notzip == DirEntry(<<"d", "_", "A">> \o s_ext, "bytes7", 17, NotZip)

f_nometa ==
  DirEntry(<<"e", "_", "A">> \o s_ext, "bytes8", 18,
    Zip(<<Member(<<"r", "e", "a", "d", "m", "e">>, <<Doc(EmptyDict)>>)>>))

f_badjson ==
  DirEntry(<<"f", "_", "A">> \o s_ext, "bytes9", 19,
    Zip(<<Member(s_metadata_json, <<Garbage>>)>>))

\* metadata that is JSON but not an object, or whose name is null
f_listmeta ==
  DirEntry(<<"g", "_", "A">> \o s_ext, "bytes10", 20,
    Zip(<<Member(s_metadata_json, <<Doc(PyList(<<>>))>>)>>))

f_nullname ==
  DirEntry(<<"h", "_", "A">> \o s_ext, "bytes11", 21,
    MetaDoc([name |-> PyNone, version |-> PyStr(s_1)]))

\* entries glob("*.magic") + is_file() leaves out
f_txt == DirEntry(<<"n", ".", "t", "x", "t">>, "bytes12", 22, NotZip)

f_subdir ==
  [DirEntry(<<"k", "_", "A">> \o s_ext, "", 0, NotZip) EXCEPT !.is_file = FALSE]

DirEntries ==
  { f_a_1A, f_a_1B, f_b_2C, f_c_x7, f_weird, f_two_underscores, f_notzip,
    f_nometa, f_badjson, f_listmeta, f_nullname, f_txt, f_subdir }

\* directory listings: up to MaxFiles distinct entries, in any order
Listings ==
  UNION { { l \in [1..n -> DirEntries] : \A j, k \in 1..n : j # k => l[j] # l[k] }
          : n \in 0..MaxFiles }

\* contents of magic/manifest.json before a run
File(text) == [exists |-> TRUE, readable |-> TRUE, writable |-> TRUE, text |-> text]
Absent == [exists |-> FALSE, readable |-> TRUE, writable |-> TRUE, text |-> <<>>]
Catalog(models) == PyDict([models |-> PyList(models)])

e_a1_old ==
  PyDict([name |-> PyStr(s_a), version |-> PyStr(s_1), note |-> PyStr(<<"o">>)])
e_a1_dup ==
  PyDict([name |-> PyStr(s_a), version |-> PyStr(s_1), note |-> PyStr(<<"d">>)])
e_b2_old == PyDict([name |-> PyStr(s_b), version |-> PyStr(s_2)])
e_z9 == PyDict([name |-> PyStr(<<"z">>), version |-> PyStr(<<"9">>)])
e_noname == PyDict([version |-> PyStr(s_1)])

RegistryFiles ==
  { Absent,
    File(<<>>),
    File(<<WS, WS>>),
    File(<<Garbage>>),
    File(<<Doc(Catalog(<<>>)), Garbage>>),
    [File(<<Doc(Catalog(<<e_z9>>))>>) EXCEPT !.readable = FALSE],
    [File(<<Doc(Catalog(<<e_z9>>))>>) EXCEPT !.writable = FALSE],
    File(<<Doc(Catalog(<<>>))>>),
    File(<<WS, Doc(Catalog(<<e_a1_old>>)), WS>>),
    File(<<Doc(PyDict([models |-> PyList(<<e_z9, e_b2_old>>), schema |-> PyInt(1)]))>>),
    File(<<Doc(Catalog(<<e_a1_old, e_a1_dup>>))>>),
    File(<<Doc(Catalog(<<e_z9, e_noname>>))>>),
    File(<<Doc(PyList(<<>>))>>),
    File(<<Doc(EmptyDict)>>),
    File(<<Doc(PyDict([models |-> PyNone]))>>),
    File(<<Doc(Catalog(<<e_a1_old, PyInt(5)>>))>>) }

\* os.environ and the clock
s_today == <<"2", "0", "2", "5", "-", "0", "1", "-", "0", "2">>

Env(ip, port) ==
  [ GITHUB_REPOSITORY |-> PyNone, DEFAULT_BRANCH |-> PyNone,
    DEV_SERVER_IP |-> ip, DEV_SERVER_PORT |-> port, today |-> s_today ]

Envs == { Env(PyNone, PyNone), Env(PyStr(<<"h">>), PyNone) }

\* ---------------------------------------------------------------- state
VARIABLES
  disk,         \* magic/manifest.json
  dir_exists,   \* DIST_DIR.exists()
  listing,      \* the entries of magic/upload/ in enumeration order
  env,          \* os.environ and the current date
  pc,           \* position in main: "main", "loop", "upsert", "done", "crashed"
  registry,     \* main's local registry
  magic_files,  \* main's local magic_files
  i,            \* index in magic_files of the loop variable magic_path
  entry,        \* main's local entry
  exit_code,    \* status of the process, -1 while it runs
  exc,          \* the exception that left main, "" if none
  writes,       \* number of times magic/manifest.json was written in this run
  run,          \* number of the current invocation
  disk0,        \* the disk when the current invocation started
  loaded        \* what load_registry returned in the current invocation

vars ==
  << disk, dir_exists, listing, env, pc, registry, magic_files, i, entry,
     exit_code, exc, writes, run, disk0, loaded >>

inputs == << dir_exists, listing, env >>

Init ==
  /\ disk \in RegistryFiles
  /\ dir_exists \in BOOLEAN
  /\ listing \in Listings
  /\ dir_exists = FALSE => listing = <<>>
  /\ env \in Envs
  /\ pc = "main"
  /\ registry = PyNone
  /\ magic_files = <<>>
  /\ i = 0
  /\ entry = PyNone
  /\ exit_code = -1
  /\ exc = ""
  /\ writes = 0
  /\ run = 1
  /\ disk0 = disk
  /\ loaded = PyNone

\* ------------------------------------------------------------- main
\* lines 85-87: the directory is missing
main_no_dir ==
  /\ pc = "main"
  /\ ~dir_exists
  /\ pc' = "done"
  /\ exit_code' = 0
  /\ UNCHANGED << disk, inputs, registry, magic_files, i, entry, exc, writes,
                  run, disk0, loaded >>

\* lines 89-94: load, then no *.magic file
main_no_files ==
  /\ pc = "main"
  /\ dir_exists
  /\ glob_magic(listing) = <<>>
  /\ registry' = load_registry(disk)
  /\ loaded' = load_registry(disk)
  /\ magic_files' = <<>>
  /\ pc' = "done"
  /\ exit_code' = 0
  /\ UNCHANGED << disk, inputs, i, entry, exc, writes, run, disk0 >>

\* lines 89-96: load, glob, enter the loop
main_scan ==
  /\ pc = "main"
  /\ dir_exists
  /\ glob_magic(listing) # <<>>
  /\ registry' = load_registry(disk)
  /\ loaded' = load_registry(disk)
  /\ magic_files' = glob_magic(listing)
  /\ i' = 1
  /\ pc' = "loop"
  /\ UNCHANGED << disk, inputs, entry, exit_code, exc, writes, run, disk0 >>

magic_path == magic_files[i]

InLoop == pc = "loop" /\ i <= Len(magic_files)

\* lines 97-100: the name does not match
loop_skip_name ==
  /\ InLoop
  /\ ~FILENAME_RE(magic_path.fname).matched
  /\ i' = i + 1
  /\ UNCHANGED << disk, inputs, pc, registry, magic_files, entry, exit_code,
                  exc, writes, run, disk0, loaded >>

\* lines 104-108: reading the metadata raises
loop_skip_read ==
  /\ InLoop
  /\ FILENAME_RE(magic_path.fname).matched
  /\ read_model_infos_from_magic(magic_path).raised
  /\ i' = i + 1
  /\ UNCHANGED << disk, inputs, pc, registry, magic_files, entry, exit_code,
                  exc, writes, run, disk0, loaded >>

\* line 109: infos.get on a value that is not a dict
loop_crash_infos ==
  /\ InLoop
  /\ FILENAME_RE(magic_path.fname).matched
  /\ ~read_model_infos_from_magic(magic_path).raised
  /\ ~IsDict(read_model_infos_from_magic(magic_path).val)
  /\ pc' = "crashed"
  /\ exit_code' = 1
  /\ exc' = "AttributeError"
  /\ UNCHANGED << disk, inputs, registry, magic_files, i, entry, writes, run,
                  disk0, loaded >>

\* lines 102-142: the entry is assembled
loop_assemble ==
  /\ InLoop
  /\ FILENAME_RE(magic_path.fname).matched
  /\ ~read_model_infos_from_magic(magic_path).raised
  /\ IsDict(read_model_infos_from_magic(magic_path).val)
  /\ entry' = make_entry(magic_path, FILENAME_RE(magic_path.fname),
                         read_model_infos_from_magic(magic_path).val, env)
  /\ pc' = "upsert"
  /\ UNCHANGED << disk, inputs, registry, magic_files, i, exit_code, exc,
                  writes, run, disk0, loaded >>

\* lines 144-145: upsert_model(registry, entry) returns
loop_upsert ==
  /\ pc = "upsert"
  /\ ~upsert_model(registry, entry).raised
  /\ registry' = upsert_model(registry, entry).val
  /\ i' = i + 1
  /\ pc' = "loop"
  /\ UNCHANGED << disk, inputs, magic_files, entry, exit_code, exc, writes,
                  run, disk0, loaded >>

\* line 144: upsert_model(registry, entry) raises
loop_upsert_crash ==
  /\ pc = "upsert"
  /\ upsert_model(registry, entry).raised
  /\ pc' = "crashed"
  /\ exit_code' = 1
  /\ exc' = upsert_model(registry, entry).exc
  /\ UNCHANGED << disk, inputs, registry, magic_files, i, entry, writes, run,
                  disk0, loaded >>

LoopDone == pc = "loop" /\ i > Len(magic_files)

\* lines 147-149: save_registry(registry) returns
main_save ==
  /\ LoopDone
  /\ ~save_registry(registry, disk).raised
  /\ registry' = save_registry(registry, disk).val.registry
  /\ disk' = save_registry(registry, disk).val.disk
  /\ writes' = writes + 1
  /\ pc' = "done"
  /\ exit_code' = 0
  /\ UNCHANGED << inputs, magic_files, i, entry, exc, run, disk0, loaded >>

\* line 147: save_registry(registry) raises
main_save_crash ==
  /\ LoopDone
  /\ save_registry(registry, disk).raised
  /\ pc' = "crashed"
  /\ exit_code' = 1
  /\ exc' = save_registry(registry, disk).exc
  /\ UNCHANGED << disk, inputs, registry, magic_files, i, entry, writes, run,
                  disk0, loaded >>

\* the script is started again over the same directory and environment
rerun ==
  /\ pc \in {"done", "crashed"}
  /\ run < MaxRuns
  /\ run' = run + 1
  /\ pc' = "main"
  /\ registry' = PyNone
  /\ magic_files' = <<>>
  /\ i' = 0
  /\ entry' = PyNone
  /\ exit_code' = -1
  /\ exc' = ""
  /\ writes' = 0
  /\ disk0' = disk
  /\ loaded' = PyNone
  /\ UNCHANGED << disk, inputs >>

Next ==
  \/ main_no_dir
  \/ main_no_files
  \/ main_scan
  \/ loop_skip_name
  \/ loop_skip_read
  \/ loop_crash_infos
  \/ loop_assemble
  \/ loop_upsert
  \/ loop_upsert_crash
  \/ main_save
  \/ main_save_crash

Spec == Init /\ [][Next]_vars

\* two invocations in a row
NextRerun == Next \/ rerun

SpecRerun == Init /\ [][NextRerun]_vars

\* ------------------------------------------- one artifact, many shapes
\* file names around FILENAME_RE and BUILD_MAP
ArtifactNames ==
  { <<"m", "y", "m", "o", "d", "e", "l", "_", "X", "7", "B">> \o s_ext,
    <<"x", "_", "A">> \o s_ext,
    <<"x", "_", "b">> \o s_ext,
    <<"x", "_", "1", "C">> \o s_ext,
    <<"x", "_", "Z", "d">> \o s_ext,
    <<"x", "_", "F">> \o s_ext,
    <<"x", "_", "A", "f">> \o s_ext,
    <<"x", "_", "E">> \o s_ext,
    <<"x", "_", "B", "7">> \o s_ext,
    <<"w", ".", "n", "_", "D">> \o s_ext,
    <<"a", "_", "1", ".", "0">> \o s_ext,
    <<"a", "_", "x", "-", "1">> \o s_ext,
    <<"a", "_">> \o s_ext,
    <<"_", "A">> \o s_ext,
    <<"a", "_", "_", "A">> \o s_ext,
    <<"a", "-", "A">> \o s_ext }

s_1_0 == <<"1", ".", "0">>
s_1_1 == <<"1", ".", "1">>
s_2_1 == <<"2", ".", "1">>

\* contents of metadata.json
MetaSamples ==
  { EmptyDict.d,
    [version |-> PyStr(s_2_1)],
    [name |-> PyStr(s_a), version |-> PyStr(s_1)],
    [name |-> PyNone, version |-> PyNone],
    [name |-> PyStr(<<>>), version |-> PyStr(<<>>)],
    [name |-> PyInt(7), version |-> PyInt(0)],
    [compatible_versions |-> PyStr(s_1_0)],
    [compatible_versions |-> PyList(<<PyStr(s_1_0), PyStr(s_1_1)>>)],
    [compatible_versions |-> PyInt(5)],
    [compatible_versions |-> PyDict([a |-> PyInt(1)])],
    [compatible_versions |-> PyNone],
    [compat |-> PyStr(s_2)],
    [compatible_versions |-> PyStr(s_1_0), compat |-> PyStr(s_2)],
    [compatible_versions |-> PyStr(<<>>), compat |-> PyStr(s_2)],
    [compatible_versions |-> PyList(<<>>), compat |-> PyList(<<PyStr(s_2)>>)],
    [compatible_versions |-> PyInt(0), compat |-> PyInt(0)] }

ArtifactSamples ==
  DirEntries \cup
    { DirEntry(n, "bytes0", 30, MetaDoc(d)) : n \in ArtifactNames, d \in MetaSamples }

EnvFull(repo, branch, ip, port) ==
  [ GITHUB_REPOSITORY |-> repo, DEFAULT_BRANCH |-> branch,
    DEV_SERVER_IP |-> ip, DEV_SERVER_PORT |-> port, today |-> s_today ]

\* GITHUB_REPOSITORY is unset or of the form owner/name
EnvSamples ==
  { EnvFull(PyNone, PyNone, PyNone, PyNone),
    EnvFull(PyStr(<<"o", "/", "r">>), PyStr(<<"d">>), PyNone, PyNone),
    EnvFull(PyNone, PyNone, PyStr(<<"h">>), PyNone),
    EnvFull(PyNone, PyNone, PyStr(<<"h">>), PyStr(<<"9">>)),
    EnvFull(PyNone, PyNone, PyStr(<<"h">>), PyStr(<<>>)),
    EnvFull(PyStr(<<"o", "/", "r">>), PyNone, PyStr(<<>>), PyStr(<<"9">>)),
    EnvFull(PyNone, PyStr(<<"d">>), PyNone, PyStr(<<"9">>)) }

EntryRegistryFiles ==
  { Absent,
    File(<<Doc(Catalog(<<e_a1_old>>))>>),
    File(<<Doc(PyList(<<>>))>>),
    File(<<Doc(Catalog(<<e_a1_old, PyInt(5)>>))>> ) }

\* a run over a directory that holds at most one entry
InitEntry ==
  /\ disk \in EntryRegistryFiles
  /\ dir_exists \in BOOLEAN
  /\ listing \in {<<>>} \cup {<<f>> : f \in ArtifactSamples}
  /\ dir_exists = FALSE => listing = <<>>
  /\ env \in EnvSamples
  /\ pc = "main"
  /\ registry = PyNone
  /\ magic_files = <<>>
  /\ i = 0
  /\ entry = PyNone
  /\ exit_code = -1
  /\ exc = ""
  /\ writes = 0
  /\ run = 1
  /\ disk0 = disk
  /\ loaded = PyNone

SpecEntry == InitEntry /\ [][Next]_vars

\* ============================================================ properties
Terminated == pc \in {"done", "crashed"}

\* a catalog: {"models": [dict, ...]}, possibly with other top-level keys
IsCatalog(v) ==
  /\ IsDict(v)
  /\ "models" \in DOMAIN v.d
  /\ IsList(v.d.models)
  /\ \A k \in DOMAIN v.d.models.l : IsDict(v.d.models.l[k])

Models(v) == v.d.models.l

Key(m) == <<get(m, "name", PyNone), get(m, "version", PyNone)>>

UniqueKeys(models) ==
  \A j, k \in DOMAIN models : j # k => Key(models[j]) # Key(models[k])

\* the document in magic/manifest.json after a successful save
Persisted == disk.text[1].v

Saved == pc = "done" /\ writes = 1

\* at least one upsert_model call has returned in this run
Upserted == pc \in {"loop", "done"} /\ entry # PyNone

\* the entries this run's candidate files give rise to
Productive(f) ==
  /\ FILENAME_RE(f.fname).matched
  /\ ~read_model_infos_from_magic(f).raised
  /\ IsDict(read_model_infos_from_magic(f).val)

EntryOf(f) ==
  make_entry(f, FILENAME_RE(f.fname), read_model_infos_from_magic(f).val, env)

ProducedKeys ==
  {Key(EntryOf(magic_files[k])) : k \in {j \in DOMAIN magic_files : Productive(magic_files[j])}}

\* ------------------------------------------------------------------ C1
\* C1 as stated: whatever registry file load_registry accepted, the models
\* list holds no two entries with the same (name, version), in memory
\* after an upsert and in the file after save_registry.
C1_Original ==
  /\ (Upserted /\ IsCatalog(registry)) => UniqueKeys(Models(registry))
  /\ Saved => UniqueKeys(Models(Persisted))

\* C1 amended: when the loaded registry holds no two entries with the same
\* (name, version), neither does the registry in memory after each upsert
\* nor the file written by save_registry.
C1_UniqueKeysPreserved ==
  (IsCatalog(loaded) /\ UniqueKeys(Models(loaded))) =>
     /\ Upserted => (IsCatalog(registry) /\ UniqueKeys(Models(registry)))
     /\ Saved => (IsCatalog(Persisted) /\ UniqueKeys(Models(Persisted)))

\* an entry of the loaded registry was replaced and the result was saved
C1_Witness ==
  /\ Saved
  /\ entry # PyNone
  /\ IsCatalog(loaded)
  /\ Len(Models(loaded)) >= 1
  /\ UniqueKeys(Models(loaded))
  /\ Len(Models(Persisted)) = Len(Models(loaded))
  /\ Persisted # loaded

Orders(s) ==
  { [k \in DOMAIN s |-> s[p[k]]] :
      p \in {q \in [DOMAIN s -> DOMAIN s] : \A j, k \in DOMAIN s : j # k => q[j] # q[k]} }

\* C3 as stated: the file main leaves is the same for every order of the
\* candidate files, also when two files yield the same (name, version).
C3_Original ==
  Terminated =>
    \A l \in Orders(listing) : main(disk0, dir_exists, l, env).disk = disk

DistinctProducedKeys ==
  \A j, k \in DOMAIN listing :
    (j # k /\ listing[j].is_file /\ listing[k].is_file
       /\ Productive(listing[j]) /\ Productive(listing[k]))
      => Key(EntryOf(listing[j])) # Key(EntryOf(listing[k]))

\* C3 amended: when no two candidate files yield entries with the same
\* (name, version), the file main leaves is the same for every order of
\* the candidate files.
C3_OrderIndependent ==
  (Terminated /\ DistinctProducedKeys) =>
    \A l \in Orders(listing) : main(disk0, dir_exists, l, env).disk = disk

\* two files with different keys were upserted, the later one sorting first
C3_Witness ==
  /\ Saved
  /\ Len(magic_files) = 2
  /\ Productive(magic_files[1])
  /\ Productive(magic_files[2])
  /\ TupleLess(SortKey(EntryOf(magic_files[2])), SortKey(EntryOf(magic_files[1])))
       = Ok(TRUE)

\* ------------------------------------------------------------------ C4
\* C4: an upsert_model call that finds an entry with the key of the new
\* entry puts the new entry, whole, at the position of the first such
\* entry and changes nothing else; one that finds none appends the new
\* entry.
C4_UpsertReplacesWholesale ==
  [][ (pc = "upsert" /\ pc' = "loop") =>
        LET old  == Models(registry)
            new  == Models(registry')
            hits == {k \in DOMAIN old : IsDict(old[k]) /\ Key(old[k]) = Key(entry)}
        IN  /\ [registry'.d EXCEPT !.models = registry.d.models] = registry.d
            /\ IF hits # {}
               THEN /\ Len(new) = Len(old)
                    /\ \E p \in hits :
                         /\ \A j \in hits : p <= j
                         /\ new[p] = entry
                         /\ \A k \in DOMAIN old : k # p => new[k] = old[k]
               ELSE /\ Len(new) = Len(old) + 1
                    /\ new[Len(new)] = entry
                    /\ \A k \in DOMAIN old : new[k] = old[k]
    ]_vars

\* the only loaded entry carried a field the new entry lacks and was replaced
C4_Witness ==
  /\ pc = "loop"
  /\ entry # PyNone
  /\ loaded = Catalog(<<e_a1_old>>)
  /\ registry = Catalog(<<entry>>)
  /\ "note" \notin DOMAIN entry.d

\* ------------------------------------------------------------------ C5
ValidJson(text) ==
  \E k \in DOMAIN text :
    /\ text[k].tok = "doc"
    /\ \A j \in DOMAIN text : j # k => text[j] = WS

Unloadable(d) == ~d.exists \/ ~d.readable \/ ~ValidJson(d.text)

\* C5: when magic/manifest.json is absent, blank, not JSON or unreadable,
\* load_registry returns {"models": []} without raising, and what the run
\* then saves is what it saves when there is no registry file.
C5_LoadRecovery ==
  (pc # "main" /\ dir_exists /\ Unloadable(disk0)) =>
     /\ loaded = EmptyRegistry
     /\ Saved => disk.text = main(Absent, dir_exists, listing, env).disk.text

\* a run over a registry file that is not JSON has saved an entry
C5_Witness ==
  /\ Saved
  /\ disk0.exists
  /\ disk0.readable
  /\ Garbage \in Range(disk0.text)
  /\ Len(Models(Persisted)) >= 1

\* ------------------------------------------------------------------ C6
BadArtifact(f) ==
  \/ ~FILENAME_RE(f.fname).matched
  \/ read_model_infos_from_magic(f).raised

\* C6 as stated: a run that meets a candidate whose name does not match or
\* whose metadata cannot be read still reaches save_registry and returns 0
\* (a failed disk write apart).
C6_Original ==
  (Terminated /\ exc # "OSError"
     /\ \E k \in DOMAIN magic_files : BadArtifact(magic_files[k]))
    => (pc = "done" /\ exit_code = 0 /\ writes = 1)

\* ------------------------------------------------------------------ C7
NoMagicFile ==
  \A k \in DOMAIN listing :
    ~(listing[k].is_file /\ endswith(listing[k].fname, s_ext))

\* C7: when magic/upload/ is missing or holds no .magic file, main returns
\* 0 and magic/manifest.json is left as it was.
C7_EmptyScanChangesNothing ==
  (pc # "main" /\ (~dir_exists \/ NoMagicFile)) =>
     /\ pc = "done"
     /\ exit_code = 0
     /\ writes = 0
     /\ disk = disk0

\* the directory holds entries but no .magic file, the registry file is
\* not JSON
C7_Witness ==
  /\ pc = "done"
  /\ dir_exists
  /\ listing # <<>>
  /\ NoMagicFile
  /\ Garbage \in Range(disk0.text)

\* ------------------------------------------------------------------ C8
\* save_registry was entered in this run
SaveEntered == Saved \/ (pc = "crashed" /\ i > Len(magic_files))

\* C8 as stated: in every run over a directory with at least one .magic
\* file, save_registry is executed, once, after the last candidate, and
\* the file is not written before.
C8_Original ==
  /\ (Terminated /\ dir_exists /\ ~NoMagicFile) => (SaveEntered /\ writes <= 1)
  /\ (pc \in {"main", "loop", "upsert"}) => (writes = 0 /\ disk = disk0)

\* ------------------------------------------------------------------ C9
\* C9 as stated: whatever the candidate files and the registry file hold,
\* the run returns 0 unless the disk write of save_registry fails.
C9_Original == Terminated => (exit_code = 0 \/ exc = "OSError")

\* ----------------------------------------------------------------- C10
Count(models, m) == Cardinality({k \in DOMAIN models : models[k] = m})

\* C10: every entry of the loaded registry whose (name, version) no
\* candidate file of this run produced is in the saved registry, unchanged
\* and as many times as before, and the saved registry has at least as
\* many entries as the loaded one.
C10_StaleEntriesPersist ==
  (Saved /\ IsCatalog(loaded)) =>
     /\ IsCatalog(Persisted)
     /\ Len(Models(Persisted)) >= Len(Models(loaded))
     /\ \A k \in DOMAIN Models(loaded) :
          Key(Models(loaded)[k]) \notin ProducedKeys =>
            Count(Models(Persisted), Models(loaded)[k])
              >= Count(Models(loaded), Models(loaded)[k])

\* a stale entry was kept while another entry was upserted
C10_Witness ==
  /\ Saved
  /\ entry # PyNone
  /\ IsCatalog(loaded)
  /\ e_z9 \in Range(Models(loaded))
  /\ e_z9 \in Range(Models(Persisted))
  /\ Len(Models(Persisted)) >= 2

\* ----------------------------------------------------------------- C11
\* a <= b inside str and inside int
ValueLeq(a, b) ==
  \/ a = b
  \/ a.t = "str" /\ b.t = "str" /\ StrLess(a.s, b.s)
  \/ a.t = "int" /\ b.t = "int" /\ a.n < b.n

\* (name, version) of x is not after that of y, a missing field counting
\* as the empty string
KeyLeq(x, y) ==
  LET nx == get(x, "name", PyStr(<<>>))
      ny == get(y, "name", PyStr(<<>>))
  IN  IF nx # ny THEN ValueLeq(nx, ny)
      ELSE ValueLeq(get(x, "version", PyStr(<<>>)), get(y, "version", PyStr(<<>>)))

\* C11: the models list save_registry writes is in ascending order of
\* (name, version) and holds the entries the registry held before the
\* sort, each as many times as before.
C11_SortedOnSave ==
  [][ (LoopDone /\ pc' = "done") =>
        LET old == Models(registry)
            new == Models(disk'.text[1].v)
        IN  /\ \A k \in 1..(Len(new) - 1) : KeyLeq(new[k], new[k + 1])
            /\ Len(new) = Len(old)
            /\ \A m \in Range(old) \cup Range(new) : Count(old, m) = Count(new, m)
            /\ registry' = disk'.text[1].v
    ]_vars

\* a registry loaded out of order was saved in order
C11_Witness ==
  /\ Saved
  /\ IsCatalog(loaded)
  /\ Len(Models(loaded)) >= 2
  /\ Models(loaded)[1] = e_z9
  /\ Models(Persisted)[Len(Models(Persisted))] = e_z9
  /\ Models(Persisted)[1] # e_z9

\* ----------------------------------------------------------------- C12
\* the metadata of the artifact the loop is at, once it was read as a dict
Infos == read_model_infos_from_magic(magic_path).val

Assembled == pc = "upsert"

\* C12 as stated: compatible_versions of the entry is a sequence: the
\* string wrapped, the sequence as it is, the empty sequence in every
\* other case; compat stands in when compatible_versions gives no value
\* (read here as: is absent, null or empty).
C12_Original ==
  Assembled =>
    LET cv  == get(Infos, "compatible_versions", PyNone)
        alt == get(Infos, "compat", PyNone)
        src == IF Truthy(cv) THEN cv ELSE alt
    IN  entry.d.compatible_versions =
          IF ~Truthy(src) THEN PyList(<<>>)
          ELSE IF src.t = "str" THEN PyList(<<src>>)
          ELSE IF src.t = "list" THEN src
          ELSE PyList(<<>>)

\* ----------------------------------------------------------------- C13
\* the channel the last character of a build id stands for
Channel(c) ==
  CASE c \in {"A", "a"} -> <<"s", "t", "a", "b", "l", "e">>
    [] c \in {"B", "b"} -> <<"r", "c">>
    [] c \in {"C", "c"} -> <<"b", "e", "t", "a">>
    [] c \in {"D", "d"} -> <<"a", "l", "p", "h", "a">>
    [] c \in {"F", "f"} -> <<"d", "e", "b", "u", "g">>
    [] OTHER -> <<"u", "n", "k", "n", "o", "w", "n">>

\* C13: the build type of an entry is stable, rc, beta, alpha or debug
\* when the last character of its build id is A, B, C, D or F in either
\* case, and unknown for every other last character; the empty build id
\* gives unknown.
C13_BuildTypeTotal ==
  /\ parse_build_type(<<>>) = <<"u", "n", "k", "n", "o", "w", "n">>
  /\ Assembled =>
       LET bid == FILENAME_RE(magic_path.fname).buildid
       IN  /\ entry.d.build_id = PyStr(bid)
           /\ entry.d.build_type = PyStr(Channel(bid[Len(bid)]))

\* a build id that holds an A but ends in f was classified as debug
C13_Witness ==
  /\ Assembled
  /\ entry.d.build_id = PyStr(<<"A", "f">>)
  /\ entry.d.build_type = PyStr(<<"d", "e", "b", "u", "g">>)

\* ----------------------------------------------------------------- C14
\* C14: the entry assembled for a file <name>_<build id>.magic has that
\* build id, the build type parse_build_type gives for it, the version
\* of the metadata or "unknown" when the metadata has none, and the name
\* of the metadata or <name> when the metadata has none.
C14_EntryAssembly ==
  Assembled =>
    \E p \in DOMAIN magic_path.fname :
      LET logical == SubSeq(magic_path.fname, 1, p - 1)
      IN  /\ "_" \notin Range(logical)
          /\ entry.d.build_id.t = "str"
          /\ magic_path.fname = logical \o <<"_">> \o entry.d.build_id.s \o s_ext
          /\ entry.d.build_type = PyStr(parse_build_type(entry.d.build_id.s))
          /\ entry.d.version =
               IF "version" \in DOMAIN Infos.d THEN Infos.d.version
               ELSE PyStr(<<"u", "n", "k", "n", "o", "w", "n">>)
          /\ entry.d.name =
               IF "name" \in DOMAIN Infos.d THEN Infos.d.name ELSE PyStr(logical)

\* mymodel_X7B.magic with metadata {"version": "2.1"}
C14_Witness ==
  /\ Assembled
  /\ magic_path.fname =
       <<"m", "y", "m", "o", "d", "e", "l", "_", "X", "7", "B", ".", "m", "a", "g", "i", "c">>
  /\ Infos = PyDict([version |-> PyStr(<<"2", ".", "1">>)])
  /\ entry.d.build_id = PyStr(<<"X", "7", "B">>)
  /\ entry.d.build_type = PyStr(<<"r", "c">>)
  /\ entry.d.version = PyStr(<<"2", ".", "1">>)
  /\ entry.d.name = PyStr(<<"m", "y", "m", "o", "d", "e", "l">>)

\* ----------------------------------------------------------------- C15
\* fname is one non-empty name without underscore, an underscore, a
\* non-empty build id of letters and digits, and ".magic"
WellNamed(fname) ==
  \E n \in 1..Len(fname), b \in 1..Len(fname) :
    /\ Len(fname) = n + 1 + b + Len(s_ext)
    /\ \A k \in 1..n : fname[k] # "_"
    /\ fname[n + 1] = "_"
    /\ \A k \in (n + 2)..(n + 1 + b) :
         fname[k] \in Range(UpperLetters) \cup Range(LowerLetters) \cup Digits
    /\ SubSeq(fname, n + 2 + b, Len(fname)) = s_ext

\* C15: a candidate whose name is not of that form is passed over: the
\* loop moves to the next candidate, no entry is assembled for it and the
\* registry and the registry file stay as they are.
C15_NonMatchingSkipped ==
  [][ (InLoop /\ ~WellNamed(magic_path.fname)) =>
        /\ pc' = "loop"
        /\ i' = i + 1
        /\ entry' = entry
        /\ registry' = registry
        /\ disk' = disk
    ]_vars

\* a candidate with two underscores and readable metadata was passed over
C15_Witness ==
  /\ pc = "loop"
  /\ i = 2
  /\ Cardinality({k \in DOMAIN magic_files[1].fname : magic_files[1].fname[k] = "_"}) = 2
  /\ ~read_model_infos_from_magic(magic_files[1]).raised
  /\ entry = PyNone
  /\ registry = loaded

\* ----------------------------------------------------------------- C16
\* C16: download_url is http://<host>:<port>/magic/upload/<file name>,
\* the port being 8000 when none is set, when DEV_SERVER_IP is set and not
\* empty, and otherwise
\* https://raw.githubusercontent.com/<owner>/<repo>/<branch>/magic/upload/<file name>
\* with owner/repo and main as defaults.
C16_DownloadUrl ==
  Assembled =>
    LET host   == env.DEV_SERVER_IP
        port   == IF env.DEV_SERVER_PORT = PyNone
                  THEN <<"8", "0", "0", "0">> ELSE env.DEV_SERVER_PORT.s
        repo   == IF env.GITHUB_REPOSITORY = PyNone
                  THEN <<"o", "w", "n", "e", "r", "/", "r", "e", "p", "o">>
                  ELSE env.GITHUB_REPOSITORY.s
        branch == IF env.DEFAULT_BRANCH = PyNone
                  THEN <<"m", "a", "i", "n">> ELSE env.DEFAULT_BRANCH.s
    IN  entry.d.download_url =
          IF host # PyNone /\ host.s # <<>>
          THEN PyStr(<<"http://">> \o host.s \o <<":">> \o port
                       \o <<"/magic/upload/">> \o magic_path.fname)
          ELSE PyStr(<<"https://raw.githubusercontent.com/">> \o repo \o <<"/">>
                       \o branch \o <<"/magic/upload/">> \o magic_path.fname)

\* an entry got the development URL with the default port
C16_Witness ==
  /\ Assembled
  /\ env.DEV_SERVER_IP = PyStr(<<"h">>)
  /\ env.DEV_SERVER_PORT = PyNone
  /\ entry.d.download_url =
       PyStr(<<"http://", "h", ":", "8", "0", "0", "0", "/magic/upload/">>
               \o magic_path.fname)

C18_Original ==
  (pc # "main" /\ dir_exists) =>
    /\ IsDict(loaded)
    /\ "models" \in DOMAIN loaded.d
    /\ IsList(loaded.d.models)

====
